---- MODULE Spec2Model ----
(***************************************************************************)
(* Model of src/services/geminiService.ts: the two request/response        *)
(* operations parseTaskWithAI and analyzeScheduleWithAI, the helper        *)
(* generateId, and the external generateContent call they await.           *)
(*                                                                         *)
(* One invocation is followed from its call to its settlement.  Each async *)
(* function is two atomic steps, split at its single `await`: the part     *)
(* that runs up to the await, and the continuation that runs once the      *)
(* promise of generateContent has settled.                                 *)
(*                                                                         *)
(* The two functions share nothing but the client handle and keep nothing  *)
(* between calls, so invocations are followed one at a time.               *)
(*                                                                         *)
(* JavaScript values are tagged records: [type |-> "null"],                *)
(* [type |-> "number"], [type |-> "object", fields |-> f] where f is a     *)
(* function from the object's own keys to their values.  A response text   *)
(* is represented by what JSON.parse makes of it.                          *)
(***************************************************************************)
EXTENDS Integers, Sequences, FiniteSets, TLC

VARIABLES pc, op, cryptoAvailable, input, tasks, calls, contents,
          response, outcome, result, trace

vars == <<pc, op, cryptoAvailable, input, tasks, calls, contents,
          response, outcome, result, trace>>

(* ------------------------------ bounds --------------------------------- *)
MaxSubtasks == 2
MaxTasks == 2

(* --------------------------- value universes --------------------------- *)
Inputs == {"buy milk asap", "plan trip"}
Titles == {"Buy milk", "Plan trip"}
DueDates == {"2026-01-01T10:00:00Z"}
Priorities == {"LOW", "MEDIUM", "HIGH", "URGENT"}
SubtaskTitles == {"step a", "step b"}
RejectionErrors == {"NetworkError", "ApiError"}
Moods == {"calm", "busy", "overloaded"}

TODO == "TODO"
DONE == "DONE"
\* TaskStatus is declared in ../types; IN_PROGRESS stands for any member
\* other than TODO and DONE
TaskStatuses == {TODO, "IN_PROGRESS", DONE}

JSNull == [type |-> "null"]
JSNumber == [type |-> "number"]
JSObject(f) == [type |-> "object", fields |-> f]

EmptyObject == [k \in {} |-> TRUE]

\* {...a, ...b}: own keys of both, the later spread wins
Spread(a, b) ==
  [k \in (DOMAIN a) \cup (DOMAIN b) |-> IF k \in DOMAIN b THEN b[k] ELSE a[k]]

Prop(k, v) == [x \in {k} |-> v]

SeqsUpTo(S, n) == UNION {[1..m -> S] : m \in 0..n}

(* ---------------------------- response text ---------------------------- *)
NoText == [kind |-> "undefined"]
EmptyText == [kind |-> "empty"]
MalformedText == [kind |-> "malformed"]
JSONText(v) == [kind |-> "json", value |-> v]

\* if (response.text): undefined and "" are falsy, every other string truthy
Truthy(text) == text.kind \in {"malformed", "json"}

\* JSON.parse(text): the value, or a SyntaxError
JSONParse(text) ==
  IF text.kind = "json"
    THEN [ok |-> TRUE, value |-> text.value]
    ELSE [ok |-> FALSE, error |-> "SyntaxError"]

\* JSON.stringify(value)
JSONStringify(v) == JSONText(v)

Rejected(e) == [settled |-> "rejected", error |-> e]
Fulfilled(t) == [settled |-> "fulfilled", text |-> t]
NoResponse == [settled |-> "none"]

(* ----------------------------- generateId ------------------------------ *)
Radix == 36
Digits36 == <<"0","1","2","3","4","5","6","7","8","9","a","b","c","d","e",
              "f","g","h","i","j","k","l","m","n","o","p","q","r","s","t",
              "u","v","w","x","y","z">>

\* values crypto.randomUUID() may return, as character sequences
UUIDs == {<<"u", "1">>, <<"u", "2">>, <<"u", "3">>}
\* values Date.now() may return during one map() over the subtasks
ClockValues == {35, 36}
\* values Math.random() may return, as the digits after "0." in base 36
\* (the empty sequence is Math.random() = 0, printed "0")
RandomFractions == {<<>>, <<"7">>, <<"0", "7">>}

RECURSIVE ToString36(_)
\* Date.now().toString(36)
ToString36(n) ==
  IF n < Radix THEN <<Digits36[n + 1]>>
  ELSE ToString36(n \div Radix) \o <<Digits36[(n % Radix) + 1]>>

\* Math.random().toString(36)
RandomToString36(frac) ==
  IF frac = <<>> THEN <<"0">> ELSE <<"0", ".">> \o frac

\* s.substring(2)
Substring2(s) == SubSeq(s, 3, Len(s))

generateId(hasCrypto, uuid, now, rnd) ==
  IF hasCrypto THEN uuid
  ELSE ToString36(now) \o Substring2(RandomToString36(rnd))

\* obj[k], undefined when k is not an own key
Undefined == "undefined"
Get(obj, k) == IF k \in DOMAIN obj THEN obj[k] ELSE Undefined

(* --------------------------- parseTaskWithAI --------------------------- *)
RawSubtasks == {Prop("title", t) : t \in SubtaskTitles}

\* the fields the service may add to the required ones
ParserExtras ==
  { EmptyObject,
    Prop("status", DONE),
    Spread(Prop("aiSuggested", FALSE), Prop("alerted", TRUE)),
    Spread(Spread(Prop("status", DONE), Prop("aiSuggested", FALSE)),
           Prop("alerted", TRUE)) }

ParserRequired ==
  { Spread(Spread(Prop("title", t), Prop("dueDate", d)), Prop("priority", p)) :
      t \in Titles, d \in DueDates, p \in Priorities }

ParserOptional ==
  {EmptyObject, Prop("description", "details")}
  \cup { Prop("subtasks", ss) : ss \in SeqsUpTo(RawSubtasks, MaxSubtasks) }

ParserObjects ==
  { Spread(Spread(r, o), x) :
      r \in ParserRequired, o \in ParserOptional, x \in ParserExtras }

ParserTexts ==
  {NoText, EmptyText, MalformedText, JSONText(JSNull), JSONText(JSNumber)}
  \cup { JSONText(JSObject(f)) : f \in ParserObjects }

ParserResponses ==
  { Rejected(e) : e \in RejectionErrors } \cup { Fulfilled(t) : t \in ParserTexts }

Returned(v) == [kind |-> "value", value |-> v]
Thrown(e) == [kind |-> "error", error |-> e]
NoResult == [kind |-> "none"]

\* number of generateId() calls the continuation makes for a response
IdCount(r) ==
  IF r.settled = "fulfilled" /\ r.text.kind = "json"
     /\ r.text.value.type = "object" /\ "subtasks" \in DOMAIN r.text.value.fields
    THEN Len(r.text.value.fields["subtasks"])
    ELSE 0

\* mutant of MapSubtasks: the titles are attached in reverse order
MapSubtasksReversed(raw, ids) ==
  [i \in 1..Len(raw) |->
     [id |-> ids[i], title |-> Get(raw[Len(raw) + 1 - i], "title"), isCompleted |-> FALSE]]

\* parsed.subtasks?.map(st => ({id: generateId(), title: st.title, isCompleted: false}))
MapSubtasks(raw, ids) ==
  [i \in 1..Len(raw) |->
     [id |-> ids[i], title |-> Get(raw[i], "title"), isCompleted |-> FALSE]]

\* parsed.subtasks?.map(...) || []
DraftSubtasks(fields, ids) ==
  IF "subtasks" \in DOMAIN fields THEN MapSubtasks(fields["subtasks"], ids) ELSE <<>>

Bookkeeping(subtasks) ==
  [k \in {"subtasks", "status", "aiSuggested", "alerted"} |->
     CASE k = "subtasks" -> subtasks
       [] k = "status" -> TODO
       [] k = "aiSuggested" -> TRUE
       [] k = "alerted" -> FALSE]

\* mutant of BuildDraft: ...parsed is spread last and wins over the bookkeeping fields
BuildDraftSpreadLast(fields, subtasks) ==
  Spread(Spread(Bookkeeping(subtasks), fields), Prop("subtasks", subtasks))

\* { ...parsed, subtasks, status: TaskStatus.TODO, aiSuggested: true, alerted: false }
BuildDraft(fields, subtasks) == Spread(fields, Bookkeeping(subtasks))

\* the try block after the await: what it returns or throws
ParserTry(r, ids) ==
  IF r.settled = "rejected" THEN Thrown(r.error)
  ELSE IF ~Truthy(r.text) THEN Thrown("No response text from Gemini")
  ELSE LET p == JSONParse(r.text) IN
    IF ~p.ok THEN Thrown(p.error)
    ELSE IF p.value.type = "null" THEN Thrown("TypeError")
    ELSE LET fields == IF p.value.type = "object" THEN p.value.fields ELSE EmptyObject
         IN Returned(JSObject(BuildDraft(fields, DraftSubtasks(fields, ids))))

\* mutant of ParserCatch: the failure is logged and a default draft is returned
ParserCatchDefault(e) ==
  [events |-> <<"console.error", "return">>, outcome |-> "returned",
   result |-> Returned(JSObject(Bookkeeping(<<>>)))]

\* mutant of ParserCatch: the failure is rethrown without being logged
ParserCatchSilent(e) ==
  [events |-> <<"throw">>, outcome |-> "rejected", result |-> Thrown(e)]

\* the catch block: console.error(...); throw error
ParserCatch(e) ==
  [events |-> <<"console.error", "throw">>, outcome |-> "rejected", result |-> Thrown(e)]

ParserSettle(r, ids) ==
  LET t == ParserTry(r, ids) IN
    IF t.kind = "error" THEN ParserCatch(t.error)
    ELSE [events |-> <<"return">>, outcome |-> "returned", result |-> t]

(* ------------------------ analyzeScheduleWithAI ------------------------ *)
TaskSubtasks == {<<>>, <<[id |-> <<"u", "1">>, title |-> "step a", isCompleted |-> FALSE]>>}

\* the Task records handed to the analyzer; subtasks is optional (t.subtasks?.length)
TaskUniverse ==
  { Spread(Spread(Spread(Prop("title", t), Prop("dueDate", d)),
                  Spread(Prop("priority", IF t = "Buy milk" THEN "URGENT" ELSE "LOW"),
                         Prop("status", st))), o) :
      t \in Titles, d \in DueDates, st \in TaskStatuses,
      o \in {EmptyObject} \cup { Prop("subtasks", ss) : ss \in TaskSubtasks } }

\* mutant of ActiveTasks: no filter, DONE tasks count as active
ActiveTasksUnfiltered(ts) == ts

\* mutant of ActiveTasks: only TODO tasks count as active
ActiveTasksTodoOnly(ts) == SelectSeq(ts, LAMBDA t : t["status"] = TODO)

\* tasks.filter(t => t.status !== TaskStatus.DONE)
ActiveTasks(ts) == SelectSeq(ts, LAMBDA t : t["status"] # DONE)

\* t.subtasks?.length || 0
SubtasksCount(t) == IF "subtasks" \in DOMAIN t THEN Len(t["subtasks"]) ELSE 0

\* t => ({title: t.title, due: t.dueDate, priority: t.priority, subtasksCount: ...})
Projection(t) ==
  [title |-> t["title"], due |-> t["dueDate"], priority |-> t["priority"],
   subtasksCount |-> SubtasksCount(t)]

\* JSON.stringify(activeTasks.map(...)), inside the content template
AnalyzerContents(active) ==
  [prefix |-> "Here is the current task registry: ",
   json |-> JSONStringify([i \in 1..Len(active) |-> Projection(active[i])])]

IdleResult ==
  [summary |-> "System idle. No active protocols detected.",
   suggestions |-> <<"Initiate new protocols", "Review archived data",
                     "Optimize system resources">>,
   mood |-> "calm"]

OfflineResult ==
  [summary |-> "Analysis subsystem offline.", suggestions |-> <<>>, mood |-> "busy"]

AnalyzerObjects ==
  { Spread(Spread(s, g), m) :
      s \in {EmptyObject, Prop("summary", "Load nominal.")},
      g \in {EmptyObject, Prop("suggestions", <<"Batch tasks", "Defer low", "Rest">>)},
      m \in {EmptyObject} \cup { Prop("mood", x) : x \in Moods \cup {"panic"} } }

AnalyzerTexts ==
  {NoText, EmptyText, MalformedText, JSONText(JSNull)}
  \cup { JSONText(JSObject(f)) : f \in AnalyzerObjects }

AnalyzerResponses ==
  { Rejected(e) : e \in RejectionErrors } \cup { Fulfilled(t) : t \in AnalyzerTexts }

\* the try block after the await: what it returns or throws
AnalyzerTry(r) ==
  IF r.settled = "rejected" THEN Thrown(r.error)
  ELSE IF ~Truthy(r.text) THEN Thrown("No analysis returned")
  ELSE LET p == JSONParse(r.text) IN
    IF ~p.ok THEN Thrown(p.error) ELSE Returned(p.value)

\* mutant of AnalyzerCatch: the failure is logged and rethrown
AnalyzerCatchRethrow(e) ==
  [events |-> <<"console.error", "throw">>, outcome |-> "rejected", result |-> Thrown(e)]

\* the catch block: console.error(...); return the offline result
AnalyzerCatch(e) ==
  [events |-> <<"console.error", "return">>, outcome |-> "returned",
   result |-> Returned(JSObject(OfflineResult))]

AnalyzerSettle(r) ==
  LET t == AnalyzerTry(r) IN
    IF t.kind = "error" THEN AnalyzerCatch(t.error)
    ELSE [events |-> <<"return">>, outcome |-> "returned", result |-> t]

(* ------------------------------- actions ------------------------------- *)
Init ==
  /\ pc = "idle"
  /\ op = "none"
  /\ cryptoAvailable = FALSE
  /\ input = ""
  /\ tasks = <<>>
  /\ calls = 0
  /\ contents = NoText
  /\ response = NoResponse
  /\ outcome = "none"
  /\ result = NoResult
  /\ trace = <<>>

\* parseTaskWithAI(input) up to its await: one generateContent call is issued
ParseStart(text) ==
  /\ pc = "idle"
  /\ pc' = "awaiting"
  /\ op' = "parseTaskWithAI"
  /\ input' = text
  /\ tasks' = <<>>
  /\ calls' = 1
  /\ contents' = [raw |-> text]
  /\ response' = NoResponse
  /\ outcome' = "none"
  /\ result' = NoResult
  /\ trace' = <<"generateContent">>
  /\ UNCHANGED cryptoAvailable

\* the continuation of parseTaskWithAI once generateContent has settled with r;
\* uuids, times and rnds are what the environment hands to the generateId calls
ParseResume(r, hasCrypto, uuids, times, rnds) ==
  /\ pc = "awaiting"
  /\ op = "parseTaskWithAI"
  /\ cryptoAvailable' = hasCrypto
  /\ LET ids == [i \in 1..IdCount(r) |->
                   generateId(hasCrypto, uuids[i], times[i], rnds[i])]
         s == ParserSettle(r, ids)
     IN /\ outcome' = s.outcome
        /\ result' = s.result
        /\ trace' = trace \o s.events
  /\ response' = r
  /\ pc' = "done"
  /\ UNCHANGED <<op, input, tasks, calls, contents>>

\* analyzeScheduleWithAI(tasks) up to its await, or to its early return
AnalyzeStart(ts) ==
  /\ pc = "idle"
  /\ op' = "analyzeScheduleWithAI"
  /\ input' = ""
  /\ tasks' = ts
  /\ response' = NoResponse
  /\ LET activeTasks == ActiveTasks(ts) IN
       IF Len(activeTasks) = 0
         THEN /\ pc' = "done"
              /\ calls' = 0
              /\ contents' = NoText
              /\ outcome' = "returned"
              /\ result' = Returned(JSObject(IdleResult))
              /\ trace' = <<"return">>
         ELSE /\ pc' = "awaiting"
              /\ calls' = 1
              /\ contents' = AnalyzerContents(activeTasks)
              /\ outcome' = "none"
              /\ result' = NoResult
              /\ trace' = <<"generateContent">>
  /\ UNCHANGED cryptoAvailable

\* mutant of AnalyzeResume: a failed call is retried once
AnalyzeResumeRetry(r) ==
  /\ pc = "awaiting"
  /\ op = "analyzeScheduleWithAI"
  /\ IF AnalyzerTry(r).kind = "error" /\ calls < 2
       THEN /\ pc' = "awaiting"
            /\ calls' = calls + 1
            /\ trace' = trace \o <<"console.error", "generateContent">>
            /\ UNCHANGED <<outcome, result>>
       ELSE /\ pc' = "done"
            /\ calls' = calls
            /\ outcome' = AnalyzerSettle(r).outcome
            /\ result' = AnalyzerSettle(r).result
            /\ trace' = trace \o AnalyzerSettle(r).events
  /\ response' = r
  /\ UNCHANGED <<op, cryptoAvailable, input, tasks, contents>>

\* the continuation of analyzeScheduleWithAI once generateContent has settled with r
AnalyzeResume(r) ==
  /\ pc = "awaiting"
  /\ op = "analyzeScheduleWithAI"
  /\ LET s == AnalyzerSettle(r)
     IN /\ outcome' = s.outcome
        /\ result' = s.result
        /\ trace' = trace \o s.events
  /\ response' = r
  /\ pc' = "done"
  /\ UNCHANGED <<op, cryptoAvailable, input, tasks, calls, contents>>

\* the promise has settled; the module keeps no state, the next call starts afresh
Finish ==
  /\ pc = "done"
  /\ pc' = "idle"
  /\ op' = "none"
  /\ input' = ""
  /\ tasks' = <<>>
  /\ calls' = 0
  /\ contents' = NoText
  /\ response' = NoResponse
  /\ outcome' = "none"
  /\ result' = NoResult
  /\ trace' = <<>>
  /\ cryptoAvailable' = FALSE

\* Date.now() does not run backwards during one map()
Monotone(times) ==
  \A i \in DOMAIN times, j \in DOMAIN times : i <= j => times[i] <= times[j]

DoParseStart ==
  /\ pc = "idle"
  /\ \E text \in Inputs : ParseStart(text)

\* typeof crypto !== 'undefined' && crypto.randomUUID selects the branch; a
\* branch not taken draws nothing
DoParseResume ==
  /\ pc = "awaiting"
  /\ op = "parseTaskWithAI"
  /\ \E r \in ParserResponses :
       \/ \E uuids \in [1..IdCount(r) -> UUIDs] :
            ParseResume(r, TRUE, uuids, <<>>, <<>>)
       \/ \E times \in {t \in [1..IdCount(r) -> ClockValues] : Monotone(t)},
             rnds \in [1..IdCount(r) -> RandomFractions] :
            ParseResume(r, FALSE, <<>>, times, rnds)

DoAnalyzeStart ==
  /\ pc = "idle"
  /\ \E ts \in SeqsUpTo(TaskUniverse, MaxTasks) : AnalyzeStart(ts)

DoAnalyzeResume ==
  /\ pc = "awaiting"
  /\ op = "analyzeScheduleWithAI"
  /\ \E r \in AnalyzerResponses : AnalyzeResume(r)

Next ==
  \/ DoParseStart
  \/ DoParseResume
  \/ DoAnalyzeStart
  \/ DoAnalyzeResume
  \/ Finish

Spec == Init /\ [][Next]_vars

(* ============================== properties ============================= *)
ParserDone == op = "parseTaskWithAI" /\ pc = "done"
AnalyzerDone == op = "analyzeScheduleWithAI" /\ pc = "done"

Events(tr) == {tr[i] : i \in DOMAIN tr}

\* the external call failed: it rejected, gave no or empty text, or text that is not JSON
ServiceFailure(r) ==
  \/ r.settled = "rejected"
  \/ r.settled = "fulfilled" /\ r.text.kind \in {"undefined", "empty", "malformed"}

\* the response text is JSON for an object
ObjectResponse(r) ==
  /\ r.settled = "fulfilled"
  /\ r.text.kind = "json"
  /\ r.text.value.type = "object"

RawFields(r) == r.text.value.fields

\* a response that honours the parser's schema
WellFormedParserResponse(r) ==
  /\ ObjectResponse(r)
  /\ {"title", "dueDate", "priority"} \subseteq DOMAIN RawFields(r)
  /\ RawFields(r)["priority"] \in Priorities

Draft == result.value.fields

\* C1: whenever the external call of parseTaskWithAI fails (rejection, no or
\* empty text, text that is not JSON), parseTaskWithAI rejects with that error
\* and yields no Task value of any kind.
C1_ParserFailurePropagates ==
  (ParserDone /\ ServiceFailure(response)) =>
    /\ outcome = "rejected"
    /\ result.kind = "error"
    /\ response.settled = "rejected" => result.error = response.error
    /\ (response.settled = "fulfilled" /\ response.text.kind \in {"undefined", "empty"})
         => result.error = "No response text from Gemini"
    /\ (response.settled = "fulfilled" /\ response.text.kind = "malformed")
         => result.error = "SyntaxError"

C1_Witness ==
  /\ ParserDone
  /\ response.settled = "rejected"
  /\ response.error = "ApiError"
  /\ outcome = "rejected"

\* C2: with at least one task that is not DONE, every failure of the external
\* call makes analyzeScheduleWithAI return (never reject) exactly the offline
\* result: the offline summary, no suggestions, mood "busy".
C2_AnalyzerFailureSubstituted ==
  (AnalyzerDone /\ calls > 0 /\ ServiceFailure(response)) =>
    /\ outcome = "returned"
    /\ result.kind = "value"
    /\ result.value.type = "object"
    /\ result.value.fields =
         [summary |-> "Analysis subsystem offline.", suggestions |-> <<>>, mood |-> "busy"]

C2_Witness ==
  /\ AnalyzerDone
  /\ \E i \in DOMAIN tasks : tasks[i]["status"] # DONE
  /\ response.settled = "fulfilled"
  /\ response.text.kind = "malformed"
  /\ outcome = "returned"

\* C3: for a task list with no task other than DONE ones (empty, or DONE only),
\* analyzeScheduleWithAI returns the idle result (idle summary, the three fixed
\* suggestions, mood "calm") and makes no call to the external service.
C3_IdleShortCircuit ==
  (AnalyzerDone /\ \A i \in DOMAIN tasks : tasks[i]["status"] = DONE) =>
    /\ outcome = "returned"
    /\ result.kind = "value"
    /\ result.value.type = "object"
    /\ result.value.fields =
         [summary |-> "System idle. No active protocols detected.",
          suggestions |-> <<"Initiate new protocols", "Review archived data",
                            "Optimize system resources">>,
          mood |-> "calm"]
    /\ Len(result.value.fields.suggestions) = 3
    /\ calls = 0
    /\ "generateContent" \notin Events(trace)
    /\ response.settled = "none"

C3_Witness ==
  /\ AnalyzerDone
  /\ Len(tasks) = MaxTasks
  /\ \A i \in DOMAIN tasks : tasks[i]["status"] = DONE
  /\ calls = 0

\* C4: for a well-formed response, the draft keeps the response's title,
\* dueDate and priority and always has status TODO, aiSuggested true and
\* alerted false, also when the response carries those three fields itself.
C4_DraftFields ==
  (ParserDone /\ WellFormedParserResponse(response)) =>
    /\ outcome = "returned"
    /\ result.kind = "value"
    /\ result.value.type = "object"
    /\ Draft["title"] = RawFields(response)["title"]
    /\ Draft["dueDate"] = RawFields(response)["dueDate"]
    /\ Draft["priority"] = RawFields(response)["priority"]
    /\ Draft["status"] = "TODO"
    /\ Draft["aiSuggested"] = TRUE
    /\ Draft["alerted"] = FALSE

C4_Witness ==
  /\ ParserDone
  /\ WellFormedParserResponse(response)
  /\ {"status", "aiSuggested", "alerted"} \subseteq DOMAIN RawFields(response)
  /\ RawFields(response)["status"] = DONE
  /\ outcome = "returned"
  /\ Draft["status"] = "TODO"

\* C5: in every draft parseTaskWithAI returns, every subtask has
\* isCompleted = false and an id different from the id of every other subtask
\* of the draft, on the crypto.randomUUID branch and on the fallback branch.
C5_SubtaskIdsUnique ==
  (ParserDone /\ outcome = "returned") =>
    /\ \A i \in DOMAIN Draft["subtasks"] : Draft["subtasks"][i].isCompleted = FALSE
    /\ \A i \in DOMAIN Draft["subtasks"], j \in DOMAIN Draft["subtasks"] :
         i # j => Draft["subtasks"][i].id # Draft["subtasks"][j].id

\* the part of C5 the code does guarantee: every new subtask is not completed
SubtasksStartIncomplete ==
  (ParserDone /\ outcome = "returned") =>
    \A i \in DOMAIN Draft["subtasks"] : Draft["subtasks"][i].isCompleted = FALSE

\* a response that honours the analyzer's schema
SchemaConformingAnalysis(v) ==
  /\ v.type = "object"
  /\ {"summary", "suggestions", "mood"} \subseteq DOMAIN v.fields
  /\ v.fields["mood"] \in Moods

\* C6: a parseable response that does not match the analyzer's schema (a
\* required field missing, mood outside calm/busy/overloaded) is treated as an
\* error and replaced by the offline result, so every returned mood is one of
\* calm, busy, overloaded.
C6_SchemaMismatchSubstituted ==
  AnalyzerDone =>
    /\ result.kind = "value"
    /\ SchemaConformingAnalysis(result.value)
    /\ (/\ response.settled = "fulfilled"
        /\ response.text.kind = "json"
        /\ ~SchemaConformingAnalysis(response.text.value))
         => result.value.fields =
              [summary |-> "Analysis subsystem offline.", suggestions |-> <<>>,
               mood |-> "busy"]

CountOf(tr, e) == Cardinality({i \in DOMAIN tr : tr[i] = e})

CallsBounded ==
  /\ calls = CountOf(trace, "generateContent")
  /\ (op = "parseTaskWithAI" /\ pc \in {"awaiting", "done"}) => calls = 1
  /\ op = "analyzeScheduleWithAI" => calls <= 1
  /\ op = "none" => calls = 0

\* C7: no retries: one parseTaskWithAI makes exactly one generateContent call
\* and one analyzeScheduleWithAI at most one; once the awaited call has
\* settled the operation ends without another call, failed or not.
C7_NoRetries ==
  /\ []CallsBounded
  /\ [][pc = "awaiting" => (pc' = "done" /\ calls' = calls /\ op' = op)]_vars

C7_Witness ==
  /\ ParserDone
  /\ ServiceFailure(response)
  /\ calls = 1
  /\ outcome = "rejected"

Sent == contents.json.value

\* C8: the content sent by analyzeScheduleWithAI lists exactly the tasks that
\* are not DONE, in input order, each as its title, due date, priority and
\* subtask count (0 without a subtask list).
C8_ContentIsActiveProjection ==
  (op = "analyzeScheduleWithAI" /\ calls > 0) =>
    /\ contents.prefix = "Here is the current task registry: "
    /\ contents.json.kind = "json"
    /\ \E f \in [DOMAIN Sent -> DOMAIN tasks] :
         /\ \A i \in DOMAIN Sent, j \in DOMAIN Sent : i < j => f[i] < f[j]
         /\ {f[i] : i \in DOMAIN Sent} = {k \in DOMAIN tasks : tasks[k]["status"] # DONE}
         /\ \A i \in DOMAIN Sent :
              /\ Sent[i].title = tasks[f[i]]["title"]
              /\ Sent[i].due = tasks[f[i]]["dueDate"]
              /\ Sent[i].priority = tasks[f[i]]["priority"]
              /\ Sent[i].subtasksCount =
                   IF "subtasks" \in DOMAIN tasks[f[i]]
                     THEN Len(tasks[f[i]]["subtasks"]) ELSE 0

C8_Witness ==
  /\ op = "analyzeScheduleWithAI"
  /\ calls = 1
  /\ Len(tasks) = MaxTasks
  /\ tasks[1]["status"] = DONE
  /\ tasks[MaxTasks]["status"] = "IN_PROGRESS"
  /\ "subtasks" \notin DOMAIN tasks[MaxTasks]
  /\ Len(Sent) < Len(tasks)

\* the continuation took its catch block
FailurePath ==
  \/ ServiceFailure(response)
  \/ /\ op = "parseTaskWithAI"
     /\ response.settled = "fulfilled"
     /\ response.text.kind = "json"
     /\ response.text.value.type = "null"

\* C9: on every failure path console.error is called before the operation
\* completes: right before the rejection in parseTaskWithAI, right before the
\* return of the offline result in analyzeScheduleWithAI; nothing is logged on
\* a success path.
C9_LoggedBeforeSettling ==
  pc = "done" =>
    /\ FailurePath <=> "console.error" \in Events(trace)
    /\ outcome = "rejected" => FailurePath
    /\ FailurePath =>
         /\ Len(trace) = 3
         /\ trace[1] = "generateContent"
         /\ trace[2] = "console.error"
         /\ trace[3] = IF op = "parseTaskWithAI" THEN "throw" ELSE "return"
         /\ outcome = IF op = "parseTaskWithAI" THEN "rejected" ELSE "returned"
    /\ \A i \in DOMAIN trace : trace[i] = "throw" => (i > 1 /\ trace[i - 1] = "console.error")

C9_Witness ==
  /\ AnalyzerDone
  /\ response.settled = "rejected"
  /\ trace = <<"generateContent", "console.error", "return">>

\* C10: for a well-formed response the draft's subtasks have the length, the
\* order and the titles of the response's subtasks; without a subtasks field
\* the draft's subtasks is the empty list, not absent.
C10_SubtasksPreserved ==
  (ParserDone /\ WellFormedParserResponse(response)) =>
    /\ outcome = "returned"
    /\ "subtasks" \in DOMAIN Draft
    /\ IF "subtasks" \in DOMAIN RawFields(response)
         THEN /\ Len(Draft["subtasks"]) = Len(RawFields(response)["subtasks"])
              /\ \A i \in DOMAIN Draft["subtasks"] :
                   Draft["subtasks"][i].title = RawFields(response)["subtasks"][i]["title"]
         ELSE Draft["subtasks"] = <<>>

C10_Witness ==
  /\ ParserDone
  /\ WellFormedParserResponse(response)
  /\ "subtasks" \in DOMAIN RawFields(response)
  /\ Len(RawFields(response)["subtasks"]) = MaxSubtasks
  /\ RawFields(response)["subtasks"][1]["title"] # RawFields(response)["subtasks"][MaxSubtasks]["title"]
  /\ outcome = "returned"
  /\ Len(Draft["subtasks"]) = MaxSubtasks

====
